---- MODULE Spec2Model ----
(***************************************************************************)
(* Chore scheduler (MichaelKujawa/Chores).  The stored JSON document, the  *)
(* #warning element, the rendered page (lists, checkboxes, dropdowns) and   *)
(* the handlers that read and write them, with normalizeAvailability and   *)
(* getMostRecentDay as operators.                                          *)
(*                                                                         *)
(* Dates are day numbers: the code compares 'YYYY-MM-DD' keys as strings,  *)
(* and on zero-padded ISO dates that order is the calendar order.          *)
(* availablePersonIds is an array the code keeps free of duplicates        *)
(* (toggleAvailability pushes only an id that is not included), so it is a *)
(* set here and .length is its cardinality.  A person or chore is its id:  *)
(* names play no part in normalisation or generation, and the names typed  *)
(* into the add and rename inputs are non-empty and not taken, so the      *)
(* handlers' name checks pass.                                             *)
(***************************************************************************)
EXTENDS Integers, Sequences, FiniteSets, TLC

\* ---------------------------------------------------------------- constants
SAME_CHORE_COOLDOWN_DAYS == 5
CONSECUTIVE_ASSIGNMENT_LIMIT == 2
HISTORY_RETENTION_DAYS == 30

\* ------------------------------------------------------------------- bounds
NumPeople == 2
MaxChores == 2
NumPastDates == 6
MaxHistoryEntries == 2
MaxSkippedDates == 1

PersonIds == 1 .. NumPeople
ChoreId(i) == 100 + i
ChoreIds == {ChoreId(i) : i \in 1 .. MaxChores}
PastDates == 1 .. NumPastDates

\* The texts showError puts in the #warning element.
MsgAlreadyConfirmed == "Assignments are already confirmed for today."
MsgNoAvailable == "No available people selected. Please select availability before generating assignments."
MsgNotEnough == "Not enough available people for all chores. Please adjust availability or assign manually."
MsgImpossible == "Assignment impossible without violating daily limits. Manual review required."
MsgRelaxed == "Fairness rules were relaxed for some chores. Manual review recommended."
MsgNoAssignments == "No assignments for today."
MsgConfirmedOk == "Assignments confirmed for today."
MsgUnavailable == "This person is marked unavailable."
MsgHasChore == "This person already has a chore today."
MsgDeleted(deletedCount) ==
  "Deleted " \o ToString(deletedCount) \o " old assignment record(s)."

\* data: the document in localStorage; today: the date the page was loaded
\* on; warning: the text of the #warning element; clearPending: a 3 s timer
\* started to clear that text is running; page: what the render functions
\* last drew (the ids in the two lists, the availability checkboxes and
\* their state, the assignment dropdowns with the document their onchange
\* closures hold); last: the handler that ran last and how it ended.
VARIABLES data, today, warning, clearPending, page, last

vars == <<data, today, warning, clearPending, page, last>>

\* ------------------------------------------------------------------ helpers
Range(f) == {f[x] : x \in DOMAIN f}

MaxOf(S) == CHOOSE m \in S : \A x \in S : x <= m

\* Object.keys(...).filter(...).sort().reverse(): the dates of S, latest first.
RECURSIVE SortDesc(_)
SortDesc(S) == IF S = {} THEN <<>> ELSE <<MaxOf(S)>> \o SortDesc(S \ {MaxOf(S)})

\* Array.prototype.slice(0, n)
Slice(s, n) == SubSeq(s, 1, IF n < Len(s) THEN n ELSE Len(s))

\* WithoutPerson that deletes nothing.
WithoutPersonKept(asg, pid) == asg

\* delete day.assignments[k] for every key k whose value is pid
WithoutPerson(asg, pid) == [c \in {c \in DOMAIN asg : asg[c] # pid} |-> asg[c]]

\* obj[key] = value on an assignments object
Put(asg, c, pid) == [k \in DOMAIN asg \cup {c} |-> IF k = c THEN pid ELSE asg[k]]

\* ------------------------------------------------------------ normalisation
\* getMostRecentDay without the reverse(): the earliest day.
getMostRecentDayUnreversed(d, beforeDate) ==
  LET dates == SortDesc({x \in DOMAIN d.assignmentsByDate : x < beforeDate})
  IN IF Len(dates) > 0 THEN <<d.assignmentsByDate[dates[Len(dates)]]>> ELSE <<>>

\* null is the empty sequence, a day is a one-element sequence
getMostRecentDay(d, beforeDate) ==
  LET dates == SortDesc({x \in DOMAIN d.assignmentsByDate : x < beforeDate})
  IN IF Len(dates) > 0 THEN <<d.assignmentsByDate[dates[1]]>> ELSE <<>>

\* The document after normalizeAvailability(data, date) has run on it.
normalizeAvailability(d, date) ==
  IF date \notin DOMAIN d.assignmentsByDate
  THEN LET lastDay == getMostRecentDay(d, date)
           day == [availablePersonIds |->
                     IF Len(lastDay) > 0 /\ lastDay[1].availablePersonIds # {}
                     THEN lastDay[1].availablePersonIds ELSE {},
                   assignments |-> <<>>,
                   confirmed |-> FALSE]
       IN [d EXCEPT !.assignmentsByDate =
             [x \in DOMAIN d.assignmentsByDate \cup {date} |->
                IF x = date THEN day ELSE d.assignmentsByDate[x]]]
  ELSE LET day == d.assignmentsByDate[date]
           lastDay == getMostRecentDay(d, date)
           inherited ==
             IF day.availablePersonIds = {}
                /\ Len(lastDay) > 0 /\ lastDay[1].availablePersonIds # {}
             THEN lastDay[1].availablePersonIds ELSE day.availablePersonIds
       IN [d EXCEPT !.assignmentsByDate[date].availablePersonIds =
             {pid \in inherited : pid \in d.people}]

\* ---------------------------------------------------------------- rendering
\* The value of a dropdown's empty option, "-- Select --".
NoPerson == 0

\* renderList(): the ids a rename input and a delete button are drawn for.
renderList(items) == items

\* renderAvailability() on the stored document d: after normalising (the
\* action saves that), a checkbox per person, checked if available.
renderAvailability(d, t) ==
  LET d1 == normalizeAvailability(d, t)
  IN [p \in d1.people |-> p \in d1.assignmentsByDate[t].availablePersonIds]

\* renderAssignments() on the stored document d: no dropdown without a
\* record for today; else one per chore, its options the people available
\* or assigned to the chore, its onchange closure holding d.
renderAssignments(d, t) ==
  IF t \notin DOMAIN d.assignmentsByDate THEN <<>>
  ELSE LET day == d.assignmentsByDate[t]
       IN <<[data |-> d,
             options |->
               [c \in Range(d.chores) |->
                  {p \in d.people :
                     \/ p \in day.availablePersonIds
                     \/ (c \in DOMAIN day.assignments /\ day.assignments[c] = p)}]]>>

\* renderAll(): both lists, then renderAvailability(), then
\* renderAssignments() on the document the former saved.
renderAll(d, t) ==
  [choreList |-> renderList(Range(d.chores)),
   personList |-> renderList(d.people),
   checkboxes |-> renderAvailability(d, t),
   dropdowns |-> renderAssignments(normalizeAvailability(d, t), t)]

\* The page before initialize() has rendered anything.
NoPage ==
  [choreList |-> {}, personList |-> {}, checkboxes |-> <<>>, dropdowns |-> <<>>]

\* select.value of the dropdown of chore c: the option of the person the
\* closure's day assigns to c, the empty option when there is none.
selectValue(dropdown, t, c) ==
  LET asg == dropdown.data.assignmentsByDate[t].assignments
  IN IF c \in DOMAIN asg /\ asg[c] \in dropdown.options[c]
     THEN asg[c] ELSE NoPerson

\* validation with the third check off by one (length < chores.length - 1).
validationOffByOne(day, chores) ==
  IF day.confirmed THEN "confirmed"
  ELSE IF Cardinality(day.availablePersonIds) = 0 THEN "noAvailable"
  ELSE IF Cardinality(day.availablePersonIds) < Len(chores) - 1 THEN "notEnough"
  ELSE "ok"

\* validation without the third check.
validationNoCount(day, chores) ==
  IF day.confirmed THEN "confirmed"
  ELSE IF Cardinality(day.availablePersonIds) = 0 THEN "noAvailable"
  ELSE "ok"

\* --------------------------------------------------------------- generation
\* The three preconditions checked before any pick, in the code's order;
\* "ok" when none blocks.
validation(day, chores) ==
  IF day.confirmed THEN "confirmed"
  ELSE IF Cardinality(day.availablePersonIds) = 0 THEN "noAvailable"
  ELSE IF Cardinality(day.availablePersonIds) < Len(chores) THEN "notEnough"
  ELSE "ok"

\* historyDates with d <= today: today's own record heads the history.
historyDatesToToday(d, t) == SortDesc({x \in DOMAIN d.assignmentsByDate : x <= t})

\* Object.keys(data.assignmentsByDate).filter(d => d < today).sort().reverse()
historyDates(d, t) == SortDesc({x \in DOMAIN d.assignmentsByDate : x < t})

enforceSingleChore(available, chores) == Cardinality(available) >= Len(chores)

\* singleChoreFilter that filters nothing.
singleChoreFilterOff(candidates, assignedToday, enforce) == candidates

\* One chore per person: drop the people already picked in this pass.
singleChoreFilter(candidates, assignedToday, enforce) ==
  IF enforce THEN {pid \in candidates : pid \notin assignedToday} ELSE candidates

\* consecutiveFilter looking at three dates, as a rule named "no 3
\* consecutive days" would.
consecutiveFilterThree(d, dates, candidates) ==
  LET recent == Slice(dates, CONSECUTIVE_ASSIGNMENT_LIMIT + 1)
  IN {pid \in candidates :
        ~ (\A k \in 1 .. Len(recent) :
             pid \in Range(d.assignmentsByDate[recent[k]].assignments))}

\* Drop a person who has an assignment on every one of the first
\* CONSECUTIVE_ASSIGNMENT_LIMIT dates (every() of an empty slice is true).
consecutiveFilter(d, dates, candidates) ==
  LET recent == Slice(dates, CONSECUTIVE_ASSIGNMENT_LIMIT)
  IN {pid \in candidates :
        ~ (\A k \in 1 .. Len(recent) :
             pid \in Range(d.assignmentsByDate[recent[k]].assignments))}

\* cooldownFilter with a window one date short.
cooldownFilterShort(d, dates, choreId, candidates) ==
  LET recent == Slice(dates, SAME_CHORE_COOLDOWN_DAYS - 1)
  IN {pid \in candidates :
        ~ (\E k \in 1 .. Len(recent) :
             LET asg == d.assignmentsByDate[recent[k]].assignments
             IN choreId \in DOMAIN asg /\ asg[choreId] = pid)}

\* Drop a person who had this chore on one of the first
\* SAME_CHORE_COOLDOWN_DAYS dates.
cooldownFilter(d, dates, choreId, candidates) ==
  LET recent == Slice(dates, SAME_CHORE_COOLDOWN_DAYS)
  IN {pid \in candidates :
        ~ (\E k \in 1 .. Len(recent) :
             LET asg == d.assignmentsByDate[recent[k]].assignments
             IN choreId \in DOMAIN asg /\ asg[choreId] = pid)}

phase1Candidates(d, dates, available, enforce, choreId, assignedToday) ==
  cooldownFilter(d, dates, choreId,
    consecutiveFilter(d, dates,
      singleChoreFilter(available, assignedToday, enforce)))

\* phase2Candidates without the one-chore-per-person exclusion.
phase2CandidatesAll(available, enforce, assignedToday) == available

\* phase2Candidates that offers candidates only when there is a choice.
phase2CandidatesChoice(available, enforce, assignedToday) ==
  LET candidates == singleChoreFilter(available, assignedToday, enforce)
  IN IF Cardinality(candidates) > 1 THEN candidates ELSE {}

phase2Candidates(available, enforce, assignedToday) ==
  singleChoreFilter(available, assignedToday, enforce)

\* An abort that leaves success set, so that the picks made so far pass for
\* a finished Phase 1.
phase1AbortForgotten(newAssignments, picks) ==
  [success |-> TRUE, newAssignments |-> newAssignments, picks |-> picks]

\* Phase 1 met a chore with no candidate: success = false; break.
phase1Abort(newAssignments, picks) ==
  [success |-> FALSE, newAssignments |-> newAssignments, picks |-> picks]

\* Every run of the Phase 1 loop from chore i on, one per sequence of random
\* picks.
RECURSIVE phase1(_, _, _, _, _, _, _)
phase1(d, dates, available, enforce, i, newAssignments, assignedToday) ==
  IF i > Len(d.chores)
  THEN {[success |-> TRUE, newAssignments |-> newAssignments, picks |-> i - 1]}
  ELSE LET candidates ==
             phase1Candidates(d, dates, available, enforce, d.chores[i], assignedToday)
       IN IF candidates = {}
          THEN {phase1Abort(newAssignments, i - 1)}
          ELSE UNION {phase1(d, dates, available, enforce, i + 1,
                             Put(newAssignments, d.chores[i], pick),
                             assignedToday \cup {pick}) : pick \in candidates}

\* Every run of the Phase 2 loop from chore i on.
RECURSIVE phase2(_, _, _, _, _, _)
phase2(chores, available, enforce, i, newAssignments, assignedToday) ==
  IF i > Len(chores)
  THEN {[success |-> TRUE, newAssignments |-> newAssignments,
         picks |-> i - 1]}
  ELSE LET candidates == phase2Candidates(available, enforce, assignedToday)
       IN IF candidates = {}
          THEN {[success |-> FALSE, newAssignments |-> newAssignments,
                 picks |-> i - 1]}
          ELSE UNION {phase2(chores, available, enforce, i + 1,
                             Put(newAssignments, chores[i], pick),
                             assignedToday \cup {pick}) : pick \in candidates}

\* commit that also drops the records older than the cooldown window.
commitPruning(d, t, newAssignments) ==
  [d EXCEPT !.assignmentsByDate =
     [x \in {y \in DOMAIN @ : y >= t - SAME_CHORE_COOLDOWN_DAYS} |->
        IF x = t THEN [@[x] EXCEPT !.assignments = newAssignments] ELSE @[x]]]

\* The document after line 635, day.assignments = newAssignments.
commit(d, t, newAssignments) ==
  [d EXCEPT !.assignmentsByDate[t].assignments = newAssignments]

Call(op, outcome, phase, picks) ==
  [op |-> op, outcome |-> outcome, phase |-> phase, picks |-> picks, arg |-> 0]

\* A handler called with an id.
CallOn(op, outcome, arg) ==
  [op |-> op, outcome |-> outcome, phase |-> 0, picks |-> 0, arg |-> arg]

\* generateAssignments(): normalise and save, the three checks, Phase 1, on
\* its abort Phase 2, then the commit.
generateAssignments ==
  LET d1 == normalizeAvailability(data, today)
      day == d1.assignmentsByDate[today]
      available == day.availablePersonIds
      chores == d1.chores
      blocked == validation(day, chores)
      dates == historyDates(d1, today)
      enforce == enforceSingleChore(available, chores)
  IN /\ UNCHANGED <<today, clearPending>>
     /\ IF blocked = "confirmed"
        THEN /\ data' = d1
             /\ warning' = MsgAlreadyConfirmed
             /\ last' = Call("generate", "confirmed", 0, 0)
             /\ UNCHANGED page
        ELSE IF blocked = "noAvailable"
        THEN /\ data' = d1
             /\ warning' = MsgNoAvailable
             /\ last' = Call("generate", "noAvailable", 0, 0)
             /\ UNCHANGED page
        ELSE IF blocked = "notEnough"
        THEN /\ data' = d1
             /\ warning' = MsgNotEnough
             /\ last' = Call("generate", "notEnough", 0, 0)
             /\ UNCHANGED page
        ELSE \E r1 \in phase1(d1, dates, available, enforce, 1, <<>>, {}) :
               IF r1.success
               THEN /\ data' = commit(d1, today, r1.newAssignments)
                    /\ warning' = ""
                    /\ last' = Call("generate", "committed", 1, r1.picks)
                    /\ page' = [page EXCEPT !.dropdowns =
                                  renderAssignments(data', today)]
               ELSE \E r2 \in phase2(chores, available, enforce, 1,
                                     <<>>, {}) :
                      IF r2.success
                      THEN /\ data' = commit(d1, today, r2.newAssignments)
                           /\ warning' = MsgRelaxed
                           /\ last' = Call("generate", "committed", 2,
                                           r1.picks + r2.picks)
                           /\ page' = [page EXCEPT !.dropdowns =
                                         renderAssignments(data', today)]
                      ELSE /\ data' = d1
                           /\ warning' = MsgImpossible
                           /\ last' = Call("generate", "impossible", 2,
                                           r1.picks + r2.picks)
                           /\ UNCHANGED page

\* ------------------------------------------------------- the other handlers
\* How renderAvailability()'s normalizeAvailability ended: the record of the
\* date was created, or it was there.
renderedAs(d, t) ==
  IF t \in DOMAIN d.assignmentsByDate THEN "rendered" ELSE "created"

\* The page is loaded again on the same day: initialize() runs renderAll(),
\* whose renderAvailability() normalises today's record and saves; the new
\* page has an empty #warning and no timer.
initialize ==
  /\ data' = normalizeAvailability(data, today)
  /\ page' = renderAll(data, today)
  /\ warning' = ""
  /\ clearPending' = FALSE
  /\ last' = Call("initialize", renderedAs(data, today), 0, 0)
  /\ UNCHANGED today

\* toggleAvailability(personId, available), from the checkbox of a person,
\* which by then shows the value available.
toggleAvailability(personId, available) ==
  /\ IF today \notin DOMAIN data.assignmentsByDate
     THEN /\ page' = [page EXCEPT !.checkboxes[personId] = available]
          /\ last' = CallOn("toggleAvailability", "noRecord", personId)
          /\ UNCHANGED data
     ELSE /\ LET day == data.assignmentsByDate[today]
             IN data' = [data EXCEPT !.assignmentsByDate[today] =
                           IF available
                           THEN [day EXCEPT !.availablePersonIds = @ \cup {personId}]
                           ELSE [day EXCEPT !.availablePersonIds = @ \ {personId},
                                            !.assignments = WithoutPerson(@, personId)]]
          /\ page' = [page EXCEPT !.checkboxes[personId] = available,
                                  !.dropdowns = renderAssignments(data', today)]
          /\ last' = CallOn("toggleAvailability", "saved", personId)
  /\ UNCHANGED <<today, warning, clearPending>>

\* confirmAssignments that, finding no record for today, creates a confirmed
\* one.
confirmAssignmentsCreating ==
  /\ UNCHANGED <<today, page>>
  /\ IF today \in DOMAIN data.assignmentsByDate
        /\ data.assignmentsByDate[today].confirmed
     THEN /\ warning' = MsgAlreadyConfirmed
          /\ last' = Call("confirmAssignments", "alreadyConfirmed", 0, 0)
          /\ UNCHANGED <<data, clearPending>>
     ELSE /\ data' = [normalizeAvailability(data, today) EXCEPT
                       !.assignmentsByDate[today].confirmed = TRUE]
          /\ warning' = MsgConfirmedOk
          /\ clearPending' = TRUE
          /\ last' = Call("confirmAssignments", "confirmed", 0, 0)

\* confirmAssignments(): on success the text is shown and a timer is started
\* that clears it.
confirmAssignments ==
  /\ UNCHANGED today
  /\ IF today \notin DOMAIN data.assignmentsByDate
     THEN /\ warning' = MsgNoAssignments
          /\ last' = Call("confirmAssignments", "noRecord", 0, 0)
          /\ UNCHANGED <<data, clearPending, page>>
     ELSE IF data.assignmentsByDate[today].confirmed
     THEN /\ warning' = MsgAlreadyConfirmed
          /\ last' = Call("confirmAssignments", "alreadyConfirmed", 0, 0)
          /\ UNCHANGED <<data, clearPending, page>>
     ELSE /\ data' = [data EXCEPT !.assignmentsByDate[today].confirmed = TRUE]
          /\ warning' = MsgConfirmedOk
          /\ clearPending' = TRUE
          /\ last' = Call("confirmAssignments", "confirmed", 0, 0)
          /\ UNCHANGED page

\* The callback of that timer: warningsEl.textContent = "".
warningTimeout ==
  /\ clearPending
  /\ warning' = ""
  /\ clearPending' = FALSE
  /\ last' = Call("warningTimeout", "cleared", 0, 0)
  /\ UNCHANGED <<data, today, page>>

\* ------------------------------------------------ people, chores, dropdowns
\* The person ids a document mentions, and the chore ids.
personIdsOf(d) ==
  d.people \cup
  UNION {d.assignmentsByDate[x].availablePersonIds
           \cup Range(d.assignmentsByDate[x].assignments) :
         x \in DOMAIN d.assignmentsByDate}

choreIdsOf(d) ==
  Range(d.chores) \cup
  UNION {DOMAIN d.assignmentsByDate[x].assignments : x \in DOMAIN d.assignmentsByDate}

\* The ids the store or the page still hold.
knownPersonIds ==
  personIdsOf(data) \cup page.personList \cup DOMAIN page.checkboxes
  \cup UNION {personIdsOf(page.dropdowns[k].data) : k \in DOMAIN page.dropdowns}

knownChoreIds ==
  choreIdsOf(data) \cup page.choreList
  \cup UNION {choreIdsOf(page.dropdowns[k].data) : k \in DOMAIN page.dropdowns}

\* uuid(): an id nothing holds; which one makes no difference, so the least.
uuid(ids, known) == CHOOSE id \in ids \ known : \A other \in ids \ known : id <= other

\* delete day.assignments[id] on every day
WithoutChore(asg, id) == [c \in DOMAIN asg \ {id} |-> asg[c]]

\* addChore(name): push, save, clearError, renderList, renderAssignments.
addChore ==
  /\ ChoreIds \ knownChoreIds # {}
  /\ LET id == uuid(ChoreIds, knownChoreIds)
         d1 == [data EXCEPT !.chores = Append(@, id)]
     IN /\ data' = d1
        /\ page' = [page EXCEPT !.choreList = renderList(Range(d1.chores)),
                                !.dropdowns = renderAssignments(d1, today)]
        /\ last' = Call("addChore", "added", 0, 0)
  /\ warning' = ""
  /\ UNCHANGED <<today, clearPending>>

\* addPerson(name): push, save, clearError, renderList, renderAvailability;
\* the dropdowns are left as they were.
addPerson ==
  /\ PersonIds \ knownPersonIds # {}
  /\ LET id == uuid(PersonIds, knownPersonIds)
         d1 == [data EXCEPT !.people = @ \cup {id}]
     IN /\ data' = normalizeAvailability(d1, today)
        /\ page' = [page EXCEPT !.personList = renderList(d1.people),
                                !.checkboxes = renderAvailability(d1, today)]
        /\ last' = Call("addPerson", "added", 0, 0)
  /\ warning' = ""
  /\ UNCHANGED <<today, clearPending>>

\* renameChore(id, name), from the input renderList drew for id.
renameChore(id) ==
  /\ IF id \notin Range(data.chores)
     THEN /\ last' = Call("renameChore", "notFound", 0, 0)
          /\ UNCHANGED <<warning, page>>
     ELSE /\ warning' = ""
          /\ page' = [page EXCEPT !.dropdowns = renderAssignments(data, today)]
          /\ last' = Call("renameChore", "renamed", 0, 0)
  /\ UNCHANGED <<data, today, clearPending>>

\* renamePerson(id, name): save, clearError, renderAssignments, then
\* renderAvailability, which normalises and saves.
renamePerson(id) ==
  /\ IF id \notin data.people
     THEN /\ last' = Call("renamePerson", "notFound", 0, 0)
          /\ UNCHANGED <<data, warning, page>>
     ELSE /\ data' = normalizeAvailability(data, today)
          /\ warning' = ""
          /\ page' = [page EXCEPT !.dropdowns = renderAssignments(data, today),
                                  !.checkboxes = renderAvailability(data, today)]
          /\ last' = Call("renamePerson", "renamed", 0, 0)
  /\ UNCHANGED <<today, clearPending>>

\* withoutChore that leaves the assignments of the chore in the records.
withoutChoreKept(d, id) ==
  [d EXCEPT !.chores = SelectSeq(@, LAMBDA c : c # id)]

\* The document deleteChore(id) saves.
withoutChore(d, id) ==
  [d EXCEPT !.chores = SelectSeq(@, LAMBDA c : c # id),
            !.assignmentsByDate =
              [x \in DOMAIN @ |-> [@[x] EXCEPT !.assignments = WithoutChore(@, id)]]]

\* deleteChore(id), from the button renderList drew for id; ends in renderAll().
deleteChore(id) ==
  /\ data' = normalizeAvailability(withoutChore(data, id), today)
  /\ page' = renderAll(withoutChore(data, id), today)
  /\ warning' = ""
  /\ last' = CallOn("deleteChore", "deleted", id)
  /\ UNCHANGED <<today, clearPending>>

\* The document deletePerson(id) saves.
withoutPerson(d, id) ==
  [d EXCEPT !.people = @ \ {id},
            !.assignmentsByDate =
              [x \in DOMAIN @ |->
                 [@[x] EXCEPT !.availablePersonIds = @ \ {id},
                              !.assignments = WithoutPerson(@, id)]]]

\* deletePerson(id), from the button renderList drew for id; ends in renderAll().
deletePerson(id) ==
  /\ data' = normalizeAvailability(withoutPerson(data, id), today)
  /\ page' = renderAll(withoutPerson(data, id), today)
  /\ warning' = ""
  /\ last' = CallOn("deletePerson", "deleted", id)
  /\ UNCHANGED <<today, clearPending>>

\* The onchange of the dropdown of chore choreId, the user having picked the
\* option personId: the closure changes the document it holds and saves that.
selectChange(choreId, personId) ==
  /\ page.dropdowns # <<>>
  /\ choreId \in DOMAIN page.dropdowns[1].options
  /\ personId \in page.dropdowns[1].options[choreId] \cup {NoPerson}
  /\ personId # selectValue(page.dropdowns[1], today, choreId)
  /\ LET held == page.dropdowns[1].data
         day == held.assignmentsByDate[today]
         alreadyAssigned ==
           Cardinality({c \in DOMAIN day.assignments :
                          day.assignments[c] = personId /\ c # choreId})
         unassigned == [held EXCEPT !.assignmentsByDate[today].assignments =
                                      WithoutChore(@, choreId)]
         assigned == [held EXCEPT !.assignmentsByDate[today].assignments =
                                    Put(@, choreId, personId)]
     IN IF personId = NoPerson
        THEN /\ data' = unassigned
             /\ page' = [page EXCEPT !.dropdowns[1].data = unassigned]
             /\ last' = Call("selectChange", "unassigned", 0, 0)
             /\ UNCHANGED warning
        ELSE IF personId \notin day.availablePersonIds
        THEN /\ warning' = MsgUnavailable
             /\ page' = [page EXCEPT !.dropdowns = renderAssignments(data, today)]
             /\ last' = Call("selectChange", "unavailable", 0, 0)
             /\ UNCHANGED data
        ELSE IF alreadyAssigned >= 1
        THEN /\ warning' = MsgHasChore
             /\ page' = [page EXCEPT !.dropdowns = renderAssignments(data, today)]
             /\ last' = Call("selectChange", "hasChore", 0, 0)
             /\ UNCHANGED data
        ELSE /\ warning' = ""
             /\ data' = assigned
             /\ page' = [page EXCEPT !.dropdowns[1].data = assigned]
             /\ last' = Call("selectChange", "assigned", 0, 0)
  /\ UNCHANGED <<today, clearPending>>

\* new Date("YYYY-MM-DD"): midnight UTC of that date, in hours.
parseDate(date) == date * 24

\* new Date() at the local time hour:00 of day nowDay in a zone offset hours
\* ahead of UTC, after setDate(getDate() - HISTORY_RETENTION_DAYS).
cutoffOf(nowDay, hour, offset) ==
  (nowDay - HISTORY_RETENTION_DAYS) * 24 + hour - offset

\* The dates cleanupOldData deletes.
oldDates(d, cutoff) == {x \in DOMAIN d.assignmentsByDate : parseDate(x) < cutoff}

\* cleanupOldData() at that time of the day the page was loaded on.
cleanupOldData(hour, offset) ==
  /\ LET old == oldDates(data, cutoffOf(today, hour, offset))
     IN /\ data' = [data EXCEPT !.assignmentsByDate =
                      [x \in DOMAIN @ \ old |-> @[x]]]
        /\ warning' = MsgDeleted(Cardinality(old))
        /\ last' = Call("cleanupOldData", "deleted", 0, 0)
  /\ clearPending' = TRUE
  /\ UNCHANGED <<today, page>>

\* The page is loaded on a later day.
loadOn(date) ==
  /\ date > today
  /\ today' = date
  /\ data' = normalizeAvailability(data, date)
  /\ page' = renderAll(data, date)
  /\ warning' = ""
  /\ clearPending' = FALSE
  /\ last' = Call("initialize", renderedAs(data, date), 0, 0)

\* ------------------------------------------------------------ specification
\* The chore lists of the model: the first n chore ids, in stored order.
ChoreLists == {[i \in 1 .. n |-> ChoreId(i)] : n \in 0 .. MaxChores}

\* A past record: everyone was available, asg is what was assigned that day.
PastDay(asg) ==
  [availablePersonIds |-> PersonIds, assignments |-> asg, confirmed |-> FALSE]

\* The assignments of date x in a history e, a function from <<date, chore>>
\* cells to the person assigned.
EntriesOf(e, x) ==
  [c \in {k[2] : k \in {k \in DOMAIN e : k[1] = x}} |-> e[<<x, c>>]]

OnePersonPerChoreDay(e) ==
  \A a, b \in DOMAIN e : (a # b /\ a[1] = b[1]) => e[a] # e[b]

\* At most MaxHistoryEntries assignment entries on the recorded dates, a
\* person holding at most one chore a day.
Histories(chores, recorded) ==
  UNION {{e \in [cells -> PersonIds] : OnePersonPerChoreDay(e)} :
           cells \in {cs \in SUBSET (recorded \X Range(chores)) :
                        Cardinality(cs) <= MaxHistoryEntries}}

\* The sets of past dates with a record: the page was loaded on the days
\* since some first day, but for at most MaxSkippedDates of them.
RecordedSets ==
  {r \in SUBSET PastDates :
     Cardinality({x \in PastDates : x \notin r /\ \E y \in r : y < x})
       <= MaxSkippedDates}

\* The documents left by earlier days.
Stores ==
  UNION {{[chores |-> chores,
           people |-> PersonIds,
           assignmentsByDate |-> [x \in recorded |-> PastDay(EntriesOf(e, x))]] :
            e \in Histories(chores, recorded)} :
         chores \in ChoreLists, recorded \in RecordedSets}

\* The page loaded on the day after the last past date: initialize() has run
\* renderAll(), whose renderAvailability() normalised and saved today's record.
Init ==
  /\ today = NumPastDates + 1
  /\ \E s \in Stores : /\ data = normalizeAvailability(s, today)
                       /\ page = renderAll(s, today)
  /\ warning = ""
  /\ clearPending = FALSE
  /\ last = Call("initialize", "created", 0, 0)

Next ==
  \/ initialize
  \/ \E personId \in DOMAIN page.checkboxes :
       toggleAvailability(personId, ~ page.checkboxes[personId])
  \/ generateAssignments
  \/ confirmAssignments
  \/ warningTimeout

Spec == Init /\ [][Next]_vars

\* --------------------------------------------- specification: normalisation
\* normalizeAvailability on any date of a short calendar, over documents
\* whose records exist or not on each date.  availablePersonIds may hold an
\* id that is not in people: addPerson() does not re-render the assignment
\* dropdowns, whose onchange saves the document loaded before the person was
\* added, and the checkbox renderAvailability() drew for that person then
\* makes toggleAvailability() push an id the saved people list lacks.
MaxNormDate == 3

NormDay(avail, confirmed) ==
  [availablePersonIds |-> avail, assignments |-> <<>>, confirmed |-> confirmed]

NormStores ==
  UNION {{[chores |-> <<>>, people |-> people, assignmentsByDate |-> byDate] :
            byDate \in [recorded ->
                          {NormDay(avail, confirmed) :
                             avail \in SUBSET PersonIds, confirmed \in BOOLEAN}]} :
         people \in SUBSET PersonIds, recorded \in SUBSET (1 .. MaxNormDate)}

InitNormalize ==
  /\ today \in 1 .. MaxNormDate
  /\ data \in NormStores
  /\ page = NoPage
  /\ warning = ""
  /\ clearPending = FALSE
  /\ last = Call("load", "loaded", 0, 0)

NextNormalize == initialize

SpecNormalize == InitNormalize /\ [][NextNormalize]_vars

\* ----------------------------------------- specification: history window
\* generateAssignments on documents that also hold a record for today, with
\* assignments of an earlier generation, and a record dated after today (the
\* page was once loaded with the clock ahead).
WindowStores(t) ==
  UNION {{[chores |-> chores,
           people |-> PersonIds,
           assignmentsByDate |->
             [x \in recorded \cup later |-> PastDay(EntriesOf(e, x))]] :
            e \in Histories(chores, recorded \cup later)} :
         chores \in ChoreLists, recorded \in RecordedSets,
         later \in SUBSET {t, t + 1}}

InitWindow ==
  /\ today = NumPastDates + 1
  /\ \E s \in WindowStores(today) : /\ data = normalizeAvailability(s, today)
                                    /\ page = renderAll(s, today)
  /\ warning = ""
  /\ clearPending = FALSE
  /\ last = Call("initialize", "rendered", 0, 0)

NextWindow == generateAssignments

SpecWindow == InitWindow /\ [][NextWindow]_vars

\* ------------------------------------------- specification: confirmation
\* confirmAssignments on documents with or without a record for today and
\* for the day before, whatever the records hold.
DayRecords(chores) ==
  {[availablePersonIds |-> avail, assignments |-> asg, confirmed |-> confirmed] :
     avail \in SUBSET PersonIds,
     asg \in UNION {[held -> PersonIds] : held \in SUBSET Range(chores)},
     confirmed \in BOOLEAN}

ConfirmStores(t) ==
  UNION {{[chores |-> chores, people |-> PersonIds, assignmentsByDate |-> byDate] :
            byDate \in [recorded -> DayRecords(chores)]} :
         chores \in ChoreLists, recorded \in SUBSET {t - 1, t}}

InitConfirm ==
  /\ today = MaxNormDate
  /\ data \in ConfirmStores(today)
  /\ page = NoPage
  /\ warning = ""
  /\ clearPending = FALSE
  /\ last = Call("load", "loaded", 0, 0)

NextConfirm == confirmAssignments

SpecConfirm == InitConfirm /\ [][NextConfirm]_vars

\* ------------------------------------------------- specification: the app
\* A fresh install used over a few days: every handler of the page, from
\* the empty document.  The page is loaded on the days of AppDays: a first
\* day, then the day whose retention boundary is the first.
AppDays == {1, 1 + HISTORY_RETENTION_DAYS}

\* The hours of the day cleanupOldData is run at, and the zones' offsets.
Hours == {0, 9}

Offsets == {-5, 0, 2}

EmptyDocument == [chores |-> <<>>, people |-> {}, assignmentsByDate |-> <<>>]

InitApp ==
  /\ today = 1
  /\ data = normalizeAvailability(EmptyDocument, today)
  /\ page = renderAll(EmptyDocument, today)
  /\ warning = ""
  /\ clearPending = FALSE
  /\ last = Call("initialize", "created", 0, 0)

NextApp ==
  \/ initialize
  \/ \E date \in AppDays : loadOn(date)
  \/ addChore
  \/ addPerson
  \/ \E id \in page.choreList : renameChore(id)
  \/ \E id \in page.personList : renamePerson(id)
  \/ \E id \in page.choreList : deleteChore(id)
  \/ \E id \in page.personList : deletePerson(id)
  \/ \E personId \in DOMAIN page.checkboxes :
       toggleAvailability(personId, ~ page.checkboxes[personId])
  \/ generateAssignments
  \/ \E choreId \in ChoreIds, personId \in PersonIds \cup {NoPerson} :
       selectChange(choreId, personId)
  \/ confirmAssignments
  \/ \E hour \in Hours, offset \in Offsets : cleanupOldData(hour, offset)
  \/ warningTimeout

SpecApp == InitApp /\ [][NextApp]_vars

\* ------------------------------------------------------------------- claims
Day == data.assignmentsByDate[today]

Injective(f) == \A a, b \in DOMAIN f : a # b => f[a] # f[b]

\* The recorded dates strictly before today, and the n most recent of them.
RecordedBefore == {x \in DOMAIN data.assignmentsByDate : x < today}

Rank(x) == Cardinality({y \in RecordedBefore : y > x})

MostRecent(n) == {x \in RecordedBefore : Rank(x) < n}

Had(x, c, p) ==
  /\ c \in DOMAIN data.assignmentsByDate[x].assignments
  /\ data.assignmentsByDate[x].assignments[c] = p

AssignedOnBothLastTwo(p) ==
  /\ Cardinality(RecordedBefore) >= 2
  /\ \A x \in MostRecent(2) : p \in Range(data.assignmentsByDate[x].assignments)

Committed == last.op = "generate" /\ last.outcome = "committed"

AssignsEveryChoreDistinctly(day, chores) ==
  /\ DOMAIN day.assignments = Range(chores)
  /\ Injective(day.assignments)
  /\ Range(day.assignments) \subseteq day.availablePersonIds

\* C1: after a generateAssignments call that committed a map, no person is
\* the value of more than one chore in today's assignments.
C1_NoPersonTwice == Committed => Injective(Day.assignments)

C1_Witness ==
  Committed /\ Cardinality(DOMAIN Day.assignments) >= 2 /\ RecordedBefore # {}

\* C2: with no record dated before today, today unconfirmed and at least as
\* many available people as chores, generateAssignments assigns every chore
\* to a distinct available person and leaves the warning empty.  Stated for
\* the calls with at least one available person.
C2_EmptyHistoryNoWarning ==
  ( /\ last.op = "generate"
    /\ RecordedBefore = {}
    /\ ~ Day.confirmed
    /\ Day.availablePersonIds # {}
    /\ Cardinality(Day.availablePersonIds) >= Len(data.chores) )
  => (AssignsEveryChoreDistinctly(Day, data.chores) /\ warning = "")

\* C3: after a commit without the relaxation warning, nobody holds today a
\* chore they held on one of the 5 most recent recorded dates before today.
C3_CooldownRespected ==
  (Committed /\ warning # MsgRelaxed)
  => \A c \in DOMAIN Day.assignments :
       \A x \in MostRecent(5) : ~ Had(x, c, Day.assignments[c])

C3_Witness ==
  /\ Committed
  /\ warning = ""
  /\ \E c \in DOMAIN Day.assignments, x \in MostRecent(5) :
       /\ Rank(x) = 4
       /\ \E p \in Day.availablePersonIds : Had(x, c, p)

\* C4: after a commit without the relaxation warning, nobody who holds an
\* assignment on each of the 2 most recent recorded dates before today holds
\* a chore today.
C4_ConsecutiveRespected ==
  (Committed /\ warning # MsgRelaxed)
  => \A p \in Range(Day.assignments) : ~ AssignedOnBothLastTwo(p)

C4_Witness ==
  /\ Committed
  /\ warning = ""
  /\ Day.assignments # <<>>
  /\ \E p \in Day.availablePersonIds : AssignedOnBothLastTwo(p)

\* C5: a generateAssignments call on a confirmed day, on a day with nobody
\* available or on a day with fewer available people than chores makes no
\* pick, leaves the one warning of that condition and leaves today's
\* assignments as they were before the call.
BlockOf(day, chores) ==
  IF day.confirmed THEN MsgAlreadyConfirmed
  ELSE IF day.availablePersonIds = {} THEN MsgNoAvailable
  ELSE IF Cardinality(day.availablePersonIds) < Len(chores) THEN MsgNotEnough
  ELSE ""

C5_BlocksLeaveAssignments ==
  [][ ( /\ last'.op = "generate"
        /\ BlockOf(data'.assignmentsByDate[today], data'.chores) # "" )
      => ( /\ last'.picks = 0
           /\ warning' = BlockOf(data'.assignmentsByDate[today], data'.chores)
           /\ data'.assignmentsByDate[today].assignments = Day.assignments )
    ]_vars

C5_Witness ==
  /\ last.op = "generate"
  /\ last.outcome = "confirmed"
  /\ Day.assignments # <<>>

\* C6: a generateAssignments call that ends in a validation block leaves the
\* whole stored document as it was before the call.
C6_BlockChangesNothing ==
  [][ ( /\ last'.op = "generate"
        /\ last'.outcome \in {"confirmed", "noAvailable", "notEnough"} )
      => data' = data
    ]_vars

\* C7: when Phase 1 met a chore with no candidate, the call commits a map
\* giving every chore a distinct available person and leaves exactly the
\* warning that fairness rules were relaxed.
C7_RelaxationCommits ==
  (last.op = "generate" /\ last.phase = 2)
  => ( /\ last.outcome = "committed"
       /\ AssignsEveryChoreDistinctly(Day, data.chores)
       /\ warning = MsgRelaxed )

C7_Witness ==
  /\ last.op = "generate"
  /\ last.phase = 2
  /\ Cardinality(DOMAIN Day.assignments) = 2
  /\ \E c \in DOMAIN Day.assignments, x \in MostRecent(5) :
       Had(x, c, Day.assignments[c])

C9_AllOrNothing ==
  [][ last'.op = "generate"
      => \/ data'.assignmentsByDate[today].assignments = Day.assignments
         \/ /\ last'.outcome = "committed"
            /\ DOMAIN data'.assignmentsByDate[today].assignments
                 = Range(data'.chores)
    ]_vars

\* Phase 1 picked for the first chore and was aborted at the second.
C9_Witness ==
  /\ Committed
  /\ last.phase = 2
  /\ last.picks > Len(data.chores)

\* C10: a second normalizeAvailability of the same date, nothing in between,
\* leaves the DayRecord the first one left.
C10_NormalizeIdempotent ==
  [][ (last.op = "initialize" /\ last'.op = "initialize")
      => data'.assignmentsByDate[today] = data.assignmentsByDate[today]
    ]_vars

\* The recorded dates before today in the document the step starts from, and
\* those of them with somebody available.
Earlier == {x \in DOMAIN data.assignmentsByDate : x < today}

EarlierNonEmpty ==
  {x \in Earlier : data.assignmentsByDate[x].availablePersonIds # {}}

\* C11: when normalizeAvailability creates today's record, the record has
\* no assignments and is not confirmed; its availability is empty if no
\* earlier recorded date has somebody available, and is the availability of
\* the nearest earlier recorded date if that one has somebody available.
\* The earlier records are left as they were.
C11_CreationInherits ==
  [][ (last'.op = "initialize" /\ today \notin DOMAIN data.assignmentsByDate)
      => LET new == data'.assignmentsByDate[today]
         IN /\ new.assignments = <<>>
            /\ new.confirmed = FALSE
            /\ EarlierNonEmpty = {} => new.availablePersonIds = {}
            /\ (Earlier # {} /\ MaxOf(Earlier) \in EarlierNonEmpty)
                 => new.availablePersonIds
                      = data.assignmentsByDate[MaxOf(Earlier)].availablePersonIds
            /\ \A x \in DOMAIN data.assignmentsByDate :
                 data'.assignmentsByDate[x] = data.assignmentsByDate[x]
    ]_vars

\* A record created from a nearest earlier day whose availability differs
\* from that of the day before it.
C11_Witness ==
  /\ last.op = "initialize"
  /\ last.outcome = "created"
  /\ Cardinality(RecordedBefore) = 2
  /\ Day.availablePersonIds # {}
  /\ \E x \in RecordedBefore :
       /\ Rank(x) = 1
       /\ data.assignmentsByDate[x].availablePersonIds
            \notin {{}, Day.availablePersonIds}

\* C12: after deletePerson(id) every record of the document is the record
\* it was without id in availablePersonIds and without the assignment
\* entries whose value is id; after deleteChore(id) every record is the
\* record it was without the assignment entry of key id.  Nothing else of
\* any record changes.
C12_CascadeDelete ==
  [][ /\ last'.op = "deletePerson"
         => \A x \in DOMAIN data.assignmentsByDate :
              /\ x \in DOMAIN data'.assignmentsByDate
              /\ data'.assignmentsByDate[x].availablePersonIds
                   = data.assignmentsByDate[x].availablePersonIds \ {last'.arg}
              /\ data'.assignmentsByDate[x].assignments
                   = [c \in {k \in DOMAIN data.assignmentsByDate[x].assignments :
                               data.assignmentsByDate[x].assignments[k] # last'.arg}
                        |-> data.assignmentsByDate[x].assignments[c]]
      /\ last'.op = "deleteChore"
         => \A x \in DOMAIN data.assignmentsByDate :
              /\ x \in DOMAIN data'.assignmentsByDate
              /\ data'.assignmentsByDate[x].availablePersonIds
                   = data.assignmentsByDate[x].availablePersonIds
              /\ data'.assignmentsByDate[x].assignments
                   = [c \in DOMAIN data.assignmentsByDate[x].assignments
                               \ {last'.arg}
                        |-> data.assignmentsByDate[x].assignments[c]]
    ]_vars

\* C13: once the stored record of today is confirmed, it is there and
\* confirmed after every later step taken on the same day.
C13_ConfirmedStays ==
  [][ ( /\ today' = today
        /\ today \in DOMAIN data.assignmentsByDate
        /\ data.assignmentsByDate[today].confirmed )
      => ( /\ today \in DOMAIN data'.assignmentsByDate
           /\ data'.assignmentsByDate[today].confirmed )
    ]_vars

\* C14: cleanupOldData, at any time of day, deletes every record dated
\* before the boundary date, today minus HISTORY_RETENTION_DAYS, and keeps
\* the record dated on the boundary date.
C14_BoundaryKept ==
  [][ last'.op = "cleanupOldData"
      => \A x \in DOMAIN data.assignmentsByDate :
           /\ x < today - HISTORY_RETENTION_DAYS
                => x \notin DOMAIN data'.assignmentsByDate
           /\ x = today - HISTORY_RETENTION_DAYS
                => x \in DOMAIN data'.assignmentsByDate
    ]_vars

\* C15: every id in the availablePersonIds of any stored record is the id
\* of a person in the stored people list.
C15_AvailableArePeople ==
  \A x \in DOMAIN data.assignmentsByDate :
    data.assignmentsByDate[x].availablePersonIds \subseteq data.people

\* C16: the keys of the assignments of every stored record are ids of
\* chores in the stored chore list.
C16_KeysAreChores ==
  \A x \in DOMAIN data.assignmentsByDate :
    DOMAIN data.assignmentsByDate[x].assignments \subseteq Range(data.chores)

\* A chore that held an assignment on an earlier day and today has been
\* deleted, another chore still holding one.
C16_Witness ==
  /\ last.op = "deleteChore"
  /\ RecordedBefore # {}
  /\ data.chores # <<>>
  /\ \A x \in DOMAIN data.assignmentsByDate :
       data.assignmentsByDate[x].assignments # <<>>

\* C17: confirmAssignments reports that there is no record and leaves the
\* document when today has none, reports that the day is confirmed and
\* leaves the document when it is, and otherwise sets confirmed on today's
\* record; in each case today's assignments and availablePersonIds and the
\* records of the other dates are what they were, and no record is created.
C17_ConfirmFrame ==
  [][ last'.op = "confirmAssignments"
      => /\ DOMAIN data'.assignmentsByDate = DOMAIN data.assignmentsByDate
         /\ \A x \in DOMAIN data.assignmentsByDate :
              /\ data'.assignmentsByDate[x].assignments
                   = data.assignmentsByDate[x].assignments
              /\ data'.assignmentsByDate[x].availablePersonIds
                   = data.assignmentsByDate[x].availablePersonIds
              /\ x # today => data'.assignmentsByDate[x] = data.assignmentsByDate[x]
         /\ data'.chores = data.chores
         /\ data'.people = data.people
         /\ IF today \notin DOMAIN data.assignmentsByDate
            THEN last'.outcome = "noRecord" /\ warning' = MsgNoAssignments
            ELSE IF data.assignmentsByDate[today].confirmed
            THEN /\ last'.outcome = "alreadyConfirmed"
                 /\ warning' = MsgAlreadyConfirmed
                 /\ data'.assignmentsByDate[today].confirmed
            ELSE /\ last'.outcome = "confirmed"
                 /\ data'.assignmentsByDate[today].confirmed
    ]_vars

\* A day with an assignment is confirmed next to an unconfirmed earlier day
\* that has one too.
C17_Witness ==
  /\ last.op = "confirmAssignments"
  /\ last.outcome = "confirmed"
  /\ today \in DOMAIN data.assignmentsByDate
  /\ Day.assignments # <<>>
  /\ \E x \in RecordedBefore :
       /\ data.assignmentsByDate[x].assignments # <<>>
       /\ ~ data.assignmentsByDate[x].confirmed

\* C18: when today's record exists with nobody available,
\* normalizeAvailability gives it the availability of the nearest earlier
\* recorded date that has somebody available, less the ids that are not in
\* the people list.
C18_InheritsNearestNonEmpty ==
  [][ ( /\ last'.op = "initialize"
        /\ today \in DOMAIN data.assignmentsByDate
        /\ data.assignmentsByDate[today].availablePersonIds = {}
        /\ EarlierNonEmpty # {} )
      => data'.assignmentsByDate[today].availablePersonIds
           = data.assignmentsByDate[MaxOf(EarlierNonEmpty)].availablePersonIds
               \cap data.people
    ]_vars

\* C19: the people Phase 1 may pick for a chore, nobody picked yet, are the
\* available people less those assigned on every one of the 2 most recent
\* recorded dates before today and those who held the chore on one of the
\* 5 most recent: the records of today, of later dates and of the 6th most
\* recent earlier date and beyond exclude nobody.
C19_WindowOfHistory ==
  \A c \in Range(data.chores) :
    phase1Candidates(data, historyDates(data, today), Day.availablePersonIds,
                     TRUE, c, {})
      = {p \in Day.availablePersonIds :
           /\ \E x \in MostRecent(2) :
                p \notin Range(data.assignmentsByDate[x].assignments)
           /\ \A x \in MostRecent(5) : ~ Had(x, c, p)}

\* Phase 1 committed, giving a chore to the person who held it on the 6th
\* most recent earlier date and holds it on the date after today.
C19_Witness ==
  /\ Committed
  /\ last.phase = 1
  /\ \E c \in DOMAIN Day.assignments :
       /\ \E x \in RecordedBefore : Rank(x) = 5 /\ Had(x, c, Day.assignments[c])
       /\ \E x \in DOMAIN data.assignmentsByDate :
            x > today /\ Had(x, c, Day.assignments[c])

\* C20: a generateAssignments call, however it ends, leaves the chore
\* list, the people list, the record of every date other than today and
\* today's confirmed flag as they were, and deletes no record.
C20_HistoryUntouched ==
  [][ last'.op = "generate"
      => /\ data'.chores = data.chores
         /\ data'.people = data.people
         /\ DOMAIN data'.assignmentsByDate
              = DOMAIN data.assignmentsByDate \cup {today}
         /\ \A x \in DOMAIN data.assignmentsByDate \ {today} :
              data'.assignmentsByDate[x] = data.assignmentsByDate[x]
         /\ today \in DOMAIN data.assignmentsByDate
              => data'.assignmentsByDate[today].confirmed
                   = data.assignmentsByDate[today].confirmed
    ]_vars

\* A commit on a day with six earlier records, the earliest holding an
\* assignment.
C20_Witness ==
  /\ Committed
  /\ Day.assignments # <<>>
  /\ \E x \in RecordedBefore :
       Rank(x) = 5 /\ data.assignmentsByDate[x].assignments # <<>>

\* The maps giving every chore of today a distinct available person, nobody
\* assigned on both of the 2 most recent recorded dates, nobody holding a
\* chore they held on one of the 5 most recent.
StrictlyFair(m) ==
  /\ Injective(m)
  /\ \A c \in DOMAIN m :
       /\ ~ AssignedOnBothLastTwo(m[c])
       /\ \A x \in MostRecent(5) : ~ Had(x, c, m[c])

StrictAssignments ==
  {m \in [Range(data.chores) -> Day.availablePersonIds] : StrictlyFair(m)}

\* C21: when some assignment of today's chores to distinct available
\* people satisfies the consecutive-day rule and the cooldown, a
\* generateAssignments call commits such an assignment and leaves no
\* warning.  Stated for an unconfirmed day with somebody available and at
\* least 2 recorded dates before it.
C21_RelaxedOnlyIfInfeasible ==
  ( /\ last.op = "generate"
    /\ ~ Day.confirmed
    /\ Day.availablePersonIds # {}
    /\ Cardinality(RecordedBefore) >= 2
    /\ StrictAssignments # {} )
  => ( /\ Committed
       /\ warning = ""
       /\ Day.assignments \in StrictAssignments )

\* C22: in today's stored record every assigned person is in
\* availablePersonIds and nobody is assigned to more than one chore.
C22_AssignedAreAvailable ==
  today \in DOMAIN data.assignmentsByDate
  => ( /\ Range(Day.assignments) \subseteq Day.availablePersonIds
       /\ Injective(Day.assignments) )

\* Both chores assigned by hand on the second day, the last of them through
\* its dropdown.
C22_Witness ==
  /\ last.op = "selectChange"
  /\ last.outcome = "assigned"
  /\ RecordedBefore # {}
  /\ Cardinality(DOMAIN Day.assignments) = 2

\* C23: a generateAssignments call made right after a person's checkbox was
\* switched off assigns no chore to that person.
C23_SwitchedOffNotAssigned ==
  [][ ( /\ last.op = "toggleAvailability"
        /\ ~ page.checkboxes[last.arg]
        /\ last'.op = "generate" )
      => last.arg \notin Range(data'.assignmentsByDate[today].assignments)
    ]_vars

\* C24: a dropdown's onchange that saves leaves the stored people, chores,
\* records of other dates and today's availablePersonIds and confirmed flag
\* as they are in the store, and changes today's assignments for one chore
\* only.
C24_EditChangesOneEntry ==
  [][ ( /\ last'.op = "selectChange"
        /\ last'.outcome \in {"assigned", "unassigned"} )
      => /\ data'.people = data.people
         /\ data'.chores = data.chores
         /\ DOMAIN data'.assignmentsByDate = DOMAIN data.assignmentsByDate
         /\ \A x \in DOMAIN data.assignmentsByDate \ {today} :
              data'.assignmentsByDate[x] = data.assignmentsByDate[x]
         /\ data'.assignmentsByDate[today].availablePersonIds
              = Day.availablePersonIds
         /\ data'.assignmentsByDate[today].confirmed = Day.confirmed
         /\ \E c \in ChoreIds :
              /\ DOMAIN data'.assignmentsByDate[today].assignments \ {c}
                   = DOMAIN Day.assignments \ {c}
              /\ \A k \in DOMAIN Day.assignments \ {c} :
                   data'.assignmentsByDate[today].assignments[k]
                     = Day.assignments[k]
    ]_vars

\* C25: a generateAssignments call that gets past the three checks commits
\* a map with an entry for every chore; it never ends with the warning of
\* the impossible assignment.
C25_PastChecksCommits ==
  ( /\ last.op = "generate"
    /\ last.outcome \notin {"confirmed", "noAvailable", "notEnough"} )
  => ( /\ last.outcome = "committed"
       /\ warning # MsgImpossible
       /\ DOMAIN Day.assignments = Range(data.chores) )

\* Phase 2 ran with exactly as many available people as chores.
C25_Witness ==
  /\ last.op = "generate"
  /\ last.phase = 2
  /\ Len(data.chores) = 2
  /\ Cardinality(Day.availablePersonIds) = 2
  /\ Day.availablePersonIds = Range(Day.assignments)

====
